---- MODULE Spec2Model ----
(***************************************************************************)
(* Model of project_lib.py: the ChatAgent transcript state machine, the    *)
(* chat-completion wrapper and the mocked activity / weather APIs.         *)
(*                                                                         *)
(* Python strings whose characters matter (system prompts, message         *)
(* contents, dates, timestamps) are sequences of one-character strings.    *)
(* Strings that the code only compares for equality (roles, model and      *)
(* client handles, city names, activity ids) are TLA+ strings.             *)
(* print_in_box only writes to the console and is left out.                *)
(***************************************************************************)
EXTENDS Integers, Sequences, FiniteSets, TLC

\* Python None, for values that are TLA+ strings
None == "<None>"

\* Python None, for values that are character sequences
NoneStr == <<"<None>">>

\* Python truthiness of an optional token: None and "" are falsy
Truthy(x) == x # None /\ x # ""

\* Python truthiness of an optional character sequence
TruthyStr(s) == s # NoneStr /\ s # <<>>

\* Python `a or b` on optional tokens
Or(a, b) == IF Truthy(a) THEN a ELSE b

----------------------------------------------------------------------------
(* String helpers: str.startswith, str.split("\n"), "\n".join, str.strip,  *)
(* textwrap.dedent.                                                        *)

StartsWith(s, p) == Len(p) <= Len(s) /\ SubSeq(s, 1, Len(p)) = p

\* characters removed by str.strip()
StripChars == {" ", "\t", "\n", "\r"}

\* characters counted as indentation by textwrap.dedent: [ \t]
IndentChars == {" ", "\t"}

RECURSIVE LStrip(_)
LStrip(s) ==
    IF s # <<>> /\ Head(s) \in StripChars THEN LStrip(Tail(s)) ELSE s

RECURSIVE RStrip(_)
RStrip(s) ==
    IF s # <<>> /\ s[Len(s)] \in StripChars
    THEN RStrip(SubSeq(s, 1, Len(s) - 1))
    ELSE s

Strip(s) == RStrip(LStrip(s))

RECURSIVE SplitLines(_)
SplitLines(s) ==
    IF \E i \in 1..Len(s) : s[i] = "\n"
    THEN LET i == CHOOSE k \in 1..Len(s) :
                     s[k] = "\n" /\ \A j \in 1..(k - 1) : s[j] # "\n"
         IN  <<SubSeq(s, 1, i - 1)>> \o SplitLines(SubSeq(s, i + 1, Len(s)))
    ELSE <<s>>

RECURSIVE JoinLines(_)
JoinLines(ls) ==
    IF Len(ls) = 0 THEN <<>>
    ELSE IF Len(ls) = 1 THEN ls[1]
    ELSE ls[1] \o <<"\n">> \o JoinLines(Tail(ls))

\* a line matched by ^[ \t]+$
WhitespaceOnly(line) ==
    Len(line) > 0 /\ \A i \in 1..Len(line) : line[i] \in IndentChars

\* the group ^[ \t]* of a line
RECURSIVE LeadingIndent(_)
LeadingIndent(line) ==
    IF line # <<>> /\ Head(line) \in IndentChars
    THEN <<Head(line)>> \o LeadingIndent(Tail(line))
    ELSE <<>>

RECURSIVE CommonPrefix(_, _)
CommonPrefix(a, b) ==
    IF a # <<>> /\ b # <<>> /\ Head(a) = Head(b)
    THEN <<Head(a)>> \o CommonPrefix(Tail(a), Tail(b))
    ELSE <<>>

\* the margin loop of textwrap.dedent over the indents found, in order
RECURSIVE Margin(_, _)
Margin(indents, margin) ==
    IF indents = <<>> THEN margin
    ELSE LET indent == Head(indents)
             m == IF margin = NoneStr THEN indent
                  ELSE IF StartsWith(indent, margin) THEN margin
                  ELSE IF StartsWith(margin, indent) THEN indent
                  ELSE CommonPrefix(margin, indent)
         IN  Margin(Tail(indents), m)

Dedent(text) ==
    LET raw     == SplitLines(text)
        lines   == [i \in 1..Len(raw) |->
                       IF WhitespaceOnly(raw[i]) THEN <<>> ELSE raw[i]]
        indents == LET F[i \in 0..Len(lines)] ==
                           IF i = 0 THEN <<>>
                           ELSE IF lines[i] # <<>>
                                THEN Append(F[i - 1], LeadingIndent(lines[i]))
                                ELSE F[i - 1]
                   IN  F[Len(lines)]
        margin  == Margin(indents, NoneStr)
        cut     == [i \in 1..Len(lines) |->
                       IF TruthyStr(margin) /\ StartsWith(lines[i], margin)
                       THEN SubSeq(lines[i], Len(margin) + 1, Len(lines[i]))
                       ELSE lines[i]]
    IN  JoinLines(cut)

----------------------------------------------------------------------------
(* ChatAgent                                                               *)

VARIABLES
    system_prompt,  \* self.system_prompt (the class default unless overridden)
    client,         \* self.client
    model,          \* self.model
    messages,       \* self.messages, the transcript
    call,           \* the last ChatAgent call: its arguments and its outcome
    query,          \* the last mocked-API call: its arguments and its outcome
    ChatAgent_messages, \* ChatAgent.messages, the list of the class attribute
    instances,      \* the ChatAgent objects created, by name
    acted           \* the last call made on one of the instances

vars == <<system_prompt, client, model, messages, call, query,
          ChatAgent_messages, instances, acted>>

\* the class attribute and the objects of the class
classVars == <<ChatAgent_messages, instances, acted>>

agentVars == <<system_prompt, client, model, messages, call>>

\* longest transcript explored when add_message is called directly
MaxLen == 4

\* longest transcript explored when only reset, get_response and chat are called
MaxCallLen == 5

\* ChatAgent.system_prompt, the class attribute
DefaultSystemPrompt ==
    <<"Y","o","u"," ","a","r","e"," ","a"," ","h","e","l","p","f","u","l",
      " ","a","s","s","i","s","t","a","n","t",".">>

\* system_prompt arguments given to the constructor
Prompts ==
    { NoneStr,
      <<>>,
      <<"\n"," "," ","a"," ","\n"," ","\n"," "," "," ","b","\n">> }

Hello == <<"h","e","l","l","o">>

Hi == <<"h","i">>

\* client arguments of the constructor: None or a client handle
Clients == {None, "client"}

\* model arguments of the constructor: None or a model name
Models == {None, "gpt"}

\* client arguments of a call: None or another client handle
ClientArgs == {None, "other-client"}

\* model arguments of a call: None or another model name
ModelArgs == {None, "other-gpt"}

\* role arguments of add_message
RoleArgs == {"system", "user", "assistant", "bogus"}

\* content arguments of add_message
Contents == {Hi}

\* user_message arguments of chat
UserMessages == {Hello}

\* message.content of a successful completion
Replies == {Hi}

\* what client.chat.completions.create / parse hands back: a response with
\* an error attribute, or one whose first choice carries a reply
Responses ==
    {[error |-> TRUE, content |-> NoneStr]}
        \cup {[error |-> FALSE, content |-> r] : r \in Replies}

NoCall == [op |-> "none", done |-> FALSE]

\* add_message inserting the new turn at the front of the list
add_message_prepend(msgs, role, content) ==
    IF role \notin {"system", "user", "assistant"}
    THEN [raised |-> "ValueError", messages |-> msgs]
    ELSE [raised |-> None,
          messages |-> <<[role |-> role, content |-> content]>> \o msgs]

\* add_message without the role check
add_message_any_role(msgs, role, content) ==
    [raised |-> None,
     messages |-> Append(msgs, [role |-> role, content |-> content])]

\* self.messages.append after the role check; raised names the exception
add_message(msgs, role, content) ==
    IF role \notin {"system", "user", "assistant"}
    THEN [raised |-> "ValueError", messages |-> msgs]
    ELSE [raised |-> None,
          messages |-> Append(msgs, [role |-> role, content |-> content])]

\* reset that clears the transcript and adds no system turn
reset_without_system_turn(prompt) ==
    [raised |-> None, messages |-> <<>>]

\* self.messages = [] followed by add_message("system", dedented prompt)
reset(prompt) ==
    add_message(<<>>, "system", Strip(Dedent(prompt)))

\* do_chat_completion without the check for a missing model
do_chat_completion_no_model_check(msgs, mdl, cl, response) ==
    IF cl = None
    THEN [raised |-> "ValueError", ret |-> NoneStr, sent |-> <<>>]
    ELSE LET request == [client |-> cl, model |-> mdl, messages |-> msgs,
                         response |-> response]
         IN  IF response.error
             THEN [raised |-> "RuntimeError", ret |-> NoneStr,
                   sent |-> <<request>>]
             ELSE [raised |-> None, ret |-> response.content,
                   sent |-> <<request>>]

\* do_chat_completion without the check for an error in the response
do_chat_completion_no_error_check(msgs, mdl, cl, response) ==
    IF cl = None
    THEN [raised |-> "ValueError", ret |-> NoneStr, sent |-> <<>>]
    ELSE IF mdl = None
    THEN [raised |-> "ValueError", ret |-> NoneStr, sent |-> <<>>]
    ELSE [raised |-> None, ret |-> response.content,
          sent |-> <<[client |-> cl, model |-> mdl, messages |-> msgs,
                      response |-> response]>>]

\* do_chat_completion validating the model only after the client was called
do_chat_completion_late_check(msgs, mdl, cl, response) ==
    IF cl = None
    THEN [raised |-> "ValueError", ret |-> NoneStr, sent |-> <<>>]
    ELSE LET request == [client |-> cl, model |-> mdl, messages |-> msgs,
                         response |-> response]
         IN  IF mdl = None
             THEN [raised |-> "ValueError", ret |-> NoneStr,
                   sent |-> <<request>>]
             ELSE IF response.error
             THEN [raised |-> "RuntimeError", ret |-> NoneStr,
                   sent |-> <<request>>]
             ELSE [raised |-> None, ret |-> response.content,
                   sent |-> <<request>>]

\* sent is the sequence of exchanges with the client: what was passed to it
\* and the response it handed back.  Both branches on "response_format" pass
\* the same model and messages and differ only in the client method used, so
\* one exchange shape stands for both.
do_chat_completion(msgs, mdl, cl, response) ==
    IF cl = None
    THEN [raised |-> "ValueError", ret |-> NoneStr, sent |-> <<>>]
    ELSE IF mdl = None
    THEN [raised |-> "ValueError", ret |-> NoneStr, sent |-> <<>>]
    ELSE LET request == [client |-> cl, model |-> mdl, messages |-> msgs,
                         response |-> response]
         IN  IF response.error
             THEN [raised |-> "RuntimeError", ret |-> NoneStr,
                   sent |-> <<request>>]
             ELSE [raised |-> None, ret |-> response.content,
                   sent |-> <<request>>]

\* get_response recording the reply under the user role
get_response_as_user(msgs, add_to_messages, mdl, cl, response) ==
    LET r == do_chat_completion(msgs, Or(mdl, model), Or(cl, client), response)
    IN  IF r.raised # None
        THEN [raised |-> r.raised, ret |-> NoneStr, sent |-> r.sent,
              messages |-> msgs]
        ELSE IF add_to_messages
        THEN [raised |-> None, ret |-> r.ret, sent |-> r.sent,
              messages |-> add_message(msgs, "user", r.ret).messages]
        ELSE [raised |-> None, ret |-> r.ret, sent |-> r.sent,
              messages |-> msgs]

\* get_response passing the bound model whatever the call's model argument
get_response_bound_model(msgs, add_to_messages, mdl, cl, response) ==
    LET r == do_chat_completion(msgs, model, Or(cl, client), response)
    IN  IF r.raised # None
        THEN [raised |-> r.raised, ret |-> NoneStr, sent |-> r.sent,
              messages |-> msgs]
        ELSE IF add_to_messages
        THEN [raised |-> None, ret |-> r.ret, sent |-> r.sent,
              messages |-> add_message(msgs, "assistant", r.ret).messages]
        ELSE [raised |-> None, ret |-> r.ret, sent |-> r.sent,
              messages |-> msgs]

\* get_response recording the reply whatever add_to_messages says
get_response_always_adds(msgs, add_to_messages, mdl, cl, response) ==
    LET r == do_chat_completion(msgs, Or(mdl, model), Or(cl, client), response)
    IN  IF r.raised # None
        THEN [raised |-> r.raised, ret |-> NoneStr, sent |-> r.sent,
              messages |-> msgs]
        ELSE [raised |-> None, ret |-> r.ret, sent |-> r.sent,
              messages |-> add_message(msgs, "assistant", r.ret).messages]

get_response(msgs, add_to_messages, mdl, cl, response) ==
    LET r == do_chat_completion(msgs, Or(mdl, model), Or(cl, client), response)
    IN  IF r.raised # None
        THEN [raised |-> r.raised, ret |-> NoneStr, sent |-> r.sent,
              messages |-> msgs]
        ELSE IF add_to_messages
        THEN [raised |-> None, ret |-> r.ret, sent |-> r.sent,
              messages |-> add_message(msgs, "assistant", r.ret).messages]
        ELSE [raised |-> None, ret |-> r.ret, sent |-> r.sent,
              messages |-> msgs]

\* chat asking for the reply before it records the user turn
chat_reply_first(msgs, user_message, add_to_messages, mdl, cl, response) ==
    LET r == get_response(msgs, add_to_messages, mdl, cl, response)
    IN  [r EXCEPT !.messages = add_message(r.messages, "user",
                                           user_message).messages]

chat(msgs, user_message, add_to_messages, mdl, cl, response) ==
    get_response(add_message(msgs, "user", user_message).messages,
                 add_to_messages, mdl, cl, response)

\* the names under which ChatAgent objects are created
AgentIds == {1, 2}

\* a name not yet bound to a ChatAgent object: no instance attribute exists
NoInstance ==
    [constructed |-> FALSE, system_prompt |-> NoneStr, client |-> None,
     model |-> None, has_messages |-> FALSE, messages |-> <<>>]

\* the class body has run: messages = [] is one list held by the class, and
\* no object exists
ClassDefined ==
    /\ ChatAgent_messages = <<>>
    /\ instances = [a \in AgentIds |-> NoInstance]
    /\ acted = [self |-> None, op |-> "none"]

\* ChatAgent(system_prompt=sp, client=c, model=m)
Construct(sp, c, m) ==
    /\ system_prompt = IF TruthyStr(sp) THEN sp ELSE DefaultSystemPrompt
    /\ client = c
    /\ model = m
    /\ messages = reset(system_prompt).messages
    /\ call = [op |-> "__init__", args |-> <<>>, raised |-> None,
               ret |-> NoneStr, sent |-> <<>>]

Init ==
    /\ \E sp \in Prompts, c \in Clients, m \in Models : Construct(sp, c, m)
    /\ query = NoCall
    /\ ClassDefined

\* reset without self.messages = []
Reset_no_clear ==
    /\ Len(messages) <= MaxCallLen
    /\ messages' = add_message(messages, "system",
                               Strip(Dedent(system_prompt))).messages
    /\ call' = [op |-> "reset", args |-> <<>>, raised |-> None,
                ret |-> NoneStr, sent |-> <<>>]
    /\ UNCHANGED <<system_prompt, client, model, query, classVars>>

Reset ==
    /\ messages' = reset(system_prompt).messages
    /\ call' = [op |-> "reset", args |-> <<>>, raised |-> None,
                ret |-> NoneStr, sent |-> <<>>]
    /\ UNCHANGED <<system_prompt, client, model, query, classVars>>

AddMessage ==
    \E role \in RoleArgs, content \in Contents :
        LET r == add_message(messages, role, content)
        IN  /\ Len(r.messages) <= MaxLen
            /\ messages' = r.messages
            /\ call' = [op |-> "add_message",
                        args |-> [role |-> role, content |-> content],
                        raised |-> r.raised, ret |-> NoneStr, sent |-> <<>>]
            /\ UNCHANGED <<system_prompt, client, model, query, classVars>>

GetResponse(bound) ==
    \E add_to_messages \in BOOLEAN, mdl \in ModelArgs, cl \in ClientArgs,
       response \in Responses :
        LET r == get_response(messages, add_to_messages, mdl, cl, response)
        IN  /\ Len(r.messages) <= bound
            /\ messages' = r.messages
            /\ call' = [op |-> "get_response",
                        args |-> [add_to_messages |-> add_to_messages,
                                  model |-> mdl, client |-> cl],
                        raised |-> r.raised, ret |-> r.ret, sent |-> r.sent]
            /\ UNCHANGED <<system_prompt, client, model, query, classVars>>

Chat(bound) ==
    \E user_message \in UserMessages, add_to_messages \in BOOLEAN,
       mdl \in ModelArgs, cl \in ClientArgs, response \in Responses :
        LET r == chat(messages, user_message, add_to_messages, mdl, cl, response)
        IN  /\ Len(r.messages) <= bound
            /\ messages' = r.messages
            /\ call' = [op |-> "chat",
                        args |-> [user_message |-> user_message,
                                  add_to_messages |-> add_to_messages,
                                  model |-> mdl, client |-> cl],
                        raised |-> r.raised, ret |-> r.ret, sent |-> r.sent]
            /\ UNCHANGED <<system_prompt, client, model, query, classVars>>

Next == Reset \/ AddMessage \/ GetResponse(MaxLen) \/ Chat(MaxLen)

Spec == Init /\ [][Next]_vars

\* the calls of the conversation state machine: no direct add_message
NextCalls == Reset \/ GetResponse(MaxCallLen) \/ Chat(MaxCallLen)

SpecCalls == Init /\ [][NextCalls]_vars

----------------------------------------------------------------------------
(* Mocked activity and weather APIs                                        *)

\* ACTIVITY_CALENDAR without the free-text fields (name, location,
\* description, related_interests), which no function of the module reads
ACTIVITY_CALENDAR ==
    <<
      [activity_id |-> "event-2025-06-10-0",
       start_time |-> <<"2","0","2","5","-","0","6","-","1","0"," ","0","9",":","0","0">>,
       end_time |-> <<"2","0","2","5","-","0","6","-","1","0"," ","1","1",":","0","0">>,
       price |-> 20],
      [activity_id |-> "event-2025-06-10-1",
       start_time |-> <<"2","0","2","5","-","0","6","-","1","0"," ","1","2",":","0","0">>,
       end_time |-> <<"2","0","2","5","-","0","6","-","1","0"," ","1","3",":","3","0">>,
       price |-> 20],
      [activity_id |-> "event-2025-06-10-2",
       start_time |-> <<"2","0","2","5","-","0","6","-","1","0"," ","1","5",":","0","0">>,
       end_time |-> <<"2","0","2","5","-","0","6","-","1","0"," ","1","7",":","0","0">>,
       price |-> 15],
      [activity_id |-> "event-2025-06-10-3",
       start_time |-> <<"2","0","2","5","-","0","6","-","1","0"," ","1","9",":","0","0">>,
       end_time |-> <<"2","0","2","5","-","0","6","-","1","0"," ","2","1",":","0","0">>,
       price |-> 15],
      [activity_id |-> "event-2025-06-11-0",
       start_time |-> <<"2","0","2","5","-","0","6","-","1","1"," ","0","9",":","0","0">>,
       end_time |-> <<"2","0","2","5","-","0","6","-","1","1"," ","1","0",":","3","0">>,
       price |-> 15],
      [activity_id |-> "event-2025-06-11-1",
       start_time |-> <<"2","0","2","5","-","0","6","-","1","1"," ","1","2",":","0","0">>,
       end_time |-> <<"2","0","2","5","-","0","6","-","1","1"," ","1","3",":","3","0">>,
       price |-> 20],
      [activity_id |-> "event-2025-06-11-2",
       start_time |-> <<"2","0","2","5","-","0","6","-","1","1"," ","1","5",":","0","0">>,
       end_time |-> <<"2","0","2","5","-","0","6","-","1","1"," ","1","7",":","3","0">>,
       price |-> 18],
      [activity_id |-> "event-2025-06-11-3",
       start_time |-> <<"2","0","2","5","-","0","6","-","1","1"," ","1","8",":","3","0">>,
       end_time |-> <<"2","0","2","5","-","0","6","-","1","1"," ","2","0",":","3","0">>,
       price |-> 25],
      [activity_id |-> "event-2025-06-12-0",
       start_time |-> <<"2","0","2","5","-","0","6","-","1","2"," ","0","8",":","0","0">>,
       end_time |-> <<"2","0","2","5","-","0","6","-","1","2"," ","1","0",":","0","0">>,
       price |-> 15],
      [activity_id |-> "event-2025-06-12-1",
       start_time |-> <<"2","0","2","5","-","0","6","-","1","2"," ","1","2",":","0","0">>,
       end_time |-> <<"2","0","2","5","-","0","6","-","1","2"," ","1","3",":","3","0">>,
       price |-> 15],
      [activity_id |-> "event-2025-06-12-2",
       start_time |-> <<"2","0","2","5","-","0","6","-","1","2"," ","1","4",":","0","0">>,
       end_time |-> <<"2","0","2","5","-","0","6","-","1","2"," ","1","6",":","3","0">>,
       price |-> 20],
      [activity_id |-> "event-2025-06-12-3",
       start_time |-> <<"2","0","2","5","-","0","6","-","1","2"," ","1","9",":","0","0">>,
       end_time |-> <<"2","0","2","5","-","0","6","-","1","2"," ","2","1",":","3","0">>,
       price |-> 15],
      [activity_id |-> "event-2025-06-13-0",
       start_time |-> <<"2","0","2","5","-","0","6","-","1","3"," ","0","9",":","0","0">>,
       end_time |-> <<"2","0","2","5","-","0","6","-","1","3"," ","1","0",":","3","0">>,
       price |-> 15],
      [activity_id |-> "event-2025-06-13-1",
       start_time |-> <<"2","0","2","5","-","0","6","-","1","3"," ","1","2",":","0","0">>,
       end_time |-> <<"2","0","2","5","-","0","6","-","1","3"," ","1","3",":","3","0">>,
       price |-> 15],
      [activity_id |-> "event-2025-06-13-2",
       start_time |-> <<"2","0","2","5","-","0","6","-","1","3"," ","1","5",":","0","0">>,
       end_time |-> <<"2","0","2","5","-","0","6","-","1","3"," ","1","7",":","0","0">>,
       price |-> 15],
      [activity_id |-> "event-2025-06-13-3",
       start_time |-> <<"2","0","2","5","-","0","6","-","1","3"," ","1","8",":","0","0">>,
       end_time |-> <<"2","0","2","5","-","0","6","-","1","3"," ","2","0",":","0","0">>,
       price |-> 15],
      [activity_id |-> "event-2025-06-14-0",
       start_time |-> <<"2","0","2","5","-","0","6","-","1","4"," ","0","8",":","0","0">>,
       end_time |-> <<"2","0","2","5","-","0","6","-","1","4"," ","1","0",":","0","0">>,
       price |-> 15],
      [activity_id |-> "event-2025-06-14-1",
       start_time |-> <<"2","0","2","5","-","0","6","-","1","4"," ","1","2",":","0","0">>,
       end_time |-> <<"2","0","2","5","-","0","6","-","1","4"," ","1","3",":","3","0">>,
       price |-> 15],
      [activity_id |-> "event-2025-06-14-2",
       start_time |-> <<"2","0","2","5","-","0","6","-","1","4"," ","1","4",":","0","0">>,
       end_time |-> <<"2","0","2","5","-","0","6","-","1","4"," ","1","6",":","3","0">>,
       price |-> 15],
      [activity_id |-> "event-2025-06-14-3",
       start_time |-> <<"2","0","2","5","-","0","6","-","1","4"," ","1","9",":","0","0">>,
       end_time |-> <<"2","0","2","5","-","0","6","-","1","4"," ","2","1",":","0","0">>,
       price |-> 15],
      [activity_id |-> "event-2025-06-15-0",
       start_time |-> <<"2","0","2","5","-","0","6","-","1","5"," ","0","9",":","0","0">>,
       end_time |-> <<"2","0","2","5","-","0","6","-","1","5"," ","1","1",":","0","0">>,
       price |-> 15],
      [activity_id |-> "event-2025-06-15-1",
       start_time |-> <<"2","0","2","5","-","0","6","-","1","5"," ","1","2",":","0","0">>,
       end_time |-> <<"2","0","2","5","-","0","6","-","1","5"," ","1","3",":","3","0">>,
       price |-> 15],
      [activity_id |-> "event-2025-06-15-2",
       start_time |-> <<"2","0","2","5","-","0","6","-","1","5"," ","1","5",":","0","0">>,
       end_time |-> <<"2","0","2","5","-","0","6","-","1","5"," ","1","7",":","0","0">>,
       price |-> 15],
      [activity_id |-> "event-2025-06-15-3",
       start_time |-> <<"2","0","2","5","-","0","6","-","1","5"," ","1","8",":","0","0">>,
       end_time |-> <<"2","0","2","5","-","0","6","-","1","5"," ","2","0",":","0","0">>,
       price |-> 15]
    >>

INCLIMATE_WEATHER_CONDITIONS == <<"thunderstorm", "rainy">>

\* WEATHER_FORECAST without the free-text description
WEATHER_FORECAST ==
    <<
      [date |-> <<"2","0","2","5","-","0","6","-","1","0">>, city |-> "AgentsVille", temperature |-> 31,
       temperature_unit |-> "celsius", condition |-> "clear"],
      [date |-> <<"2","0","2","5","-","0","6","-","1","1">>, city |-> "AgentsVille", temperature |-> 34,
       temperature_unit |-> "celsius", condition |-> "partly cloudy"],
      [date |-> <<"2","0","2","5","-","0","6","-","1","2">>, city |-> "AgentsVille", temperature |-> 28,
       temperature_unit |-> "celsius", condition |-> "thunderstorm"],
      [date |-> <<"2","0","2","5","-","0","6","-","1","3">>, city |-> "AgentsVille", temperature |-> 15,
       temperature_unit |-> "celsius", condition |-> "rainy"],
      [date |-> <<"2","0","2","5","-","0","6","-","1","4">>, city |-> "AgentsVille", temperature |-> 14,
       temperature_unit |-> "celsius", condition |-> "rainy"],
      [date |-> <<"2","0","2","5","-","0","6","-","1","5">>, city |-> "AgentsVille", temperature |-> 31,
       temperature_unit |-> "celsius", condition |-> "sunny"]
    >>

Digits == <<"0", "1", "2", "3", "4", "5", "6", "7", "8", "9">>

IsDigit(c) == \E n \in 1..10 : Digits[n] = c

\* int() of one decimal digit
DigitVal(c) == (CHOOSE n \in 1..10 : Digits[n] = c) - 1

\* code point of the characters that occur in the dates explored
Ord(c) ==
    CASE c = " " -> 32
      [] c = "-" -> 45
      [] c = "/" -> 47
      [] c = ":" -> 58
      [] OTHER   -> 48 + DigitVal(c)

\* Python's a < b on strings: code point order, a proper prefix first
RECURSIVE StrLess(_, _)
StrLess(a, b) ==
    IF b = <<>> THEN FALSE
    ELSE IF a = <<>> THEN TRUE
    ELSE IF Head(a) = Head(b) THEN StrLess(Tail(a), Tail(b))
    ELSE Ord(Head(a)) < Ord(Head(b))

\* the %m directive: 1[0-2]|0[1-9]|[1-9]
MonthField(m) ==
    \/ Len(m) = 1 /\ IsDigit(m[1]) /\ m[1] # "0"
    \/ Len(m) = 2 /\ m[1] = "1" /\ m[2] \in {"0", "1", "2"}
    \/ Len(m) = 2 /\ m[1] = "0" /\ IsDigit(m[2]) /\ m[2] # "0"

\* the %d directive: 3[0-1]|[1-2]\d|0[1-9]|[1-9]| [1-9]
DayField(d) ==
    \/ Len(d) = 1 /\ IsDigit(d[1]) /\ d[1] # "0"
    \/ Len(d) = 2 /\ d[1] = "3" /\ d[2] \in {"0", "1"}
    \/ Len(d) = 2 /\ d[1] \in {"1", "2"} /\ IsDigit(d[2])
    \/ Len(d) = 2 /\ d[1] \in {"0", " "} /\ IsDigit(d[2]) /\ d[2] # "0"

\* int() of a field of digits, a leading space skipped
RECURSIVE IntOf(_)
IntOf(f) ==
    IF f = <<>> THEN 0
    ELSE IF f[Len(f)] = " " THEN 0
    ELSE 10 * IntOf(SubSeq(f, 1, Len(f) - 1)) + DigitVal(f[Len(f)])

IsLeap(y) == y % 4 = 0 /\ (y % 100 # 0 \/ y % 400 = 0)

DaysInMonth(y, m) ==
    IF m = 2 THEN (IF IsLeap(y) THEN 29 ELSE 28)
    ELSE IF m \in {4, 6, 9, 11} THEN 30
    ELSE 31

\* datetime.datetime.strptime(date, "%Y-%m-%d") returns instead of raising
\* ValueError: four digits, "-", a month field, "-", a day field, nothing
\* after it, and the three numbers name a day of the calendar
strptime(date) ==
    /\ Len(date) >= 8
    /\ \A i \in 1..4 : IsDigit(date[i])
    /\ date[5] = "-"
    /\ \E k \in 7..8 :
           /\ date[k] = "-"
           /\ MonthField(SubSeq(date, 6, k - 1))
           /\ DayField(SubSeq(date, k + 1, Len(date)))
           /\ IntOf(SubSeq(date, 1, 4)) >= 1
           /\ IntOf(SubSeq(date, k + 1, Len(date)))
                  <= DaysInMonth(IntOf(SubSeq(date, 1, 4)),
                                 IntOf(SubSeq(date, 6, k - 1)))

\* "2025-06-10", the first day served
FirstDate == <<"2","0","2","5","-","0","6","-","1","0">>

\* "2025-06-15", the last day served
LastDate == <<"2","0","2","5","-","0","6","-","1","5">>

\* Python None, for an activity_ids list
NoneList == <<None>>

\* the empty dict {} returned by call_weather_api_mocked
EmptyDict == [empty |-> TRUE]

\* the None returned by call_activity_by_id_api_mocked
NoneRecord == [none |-> TRUE]

Range(f) == {f[i] : i \in DOMAIN f}

\* call_activities_api_mocked taking the last day as already out of range
call_activities_api_mocked_exclusive_end(date, city, activity_ids) ==
    IF Truthy(city) /\ city # "AgentsVille"
    THEN [ret |-> <<>>, printed |-> <<>>]
    ELSE IF TruthyStr(date) /\ ~strptime(date)
    THEN [ret |-> <<>>, printed |-> <<"Invalid date format">>]
    ELSE IF TruthyStr(date)
            /\ (StrLess(date, FirstDate) \/ ~StrLess(date, LastDate))
    THEN [ret |-> <<>>, printed |-> <<"outside the valid range">>]
    ELSE LET on_date ==
                 IF TruthyStr(date)
                 THEN SelectSeq(ACTIVITY_CALENDAR,
                                LAMBDA event : StartsWith(event.start_time, date))
                 ELSE ACTIVITY_CALENDAR
             activities ==
                 IF activity_ids # NoneList /\ activity_ids # <<>>
                 THEN SelectSeq(on_date,
                                LAMBDA event :
                                    event.activity_id \in Range(activity_ids))
                 ELSE on_date
         IN  [ret |-> activities,
              printed |-> IF activities = <<>>
                          THEN <<"No activities found">> ELSE <<>>]

\* call_activities_api_mocked without the test on the city
call_activities_api_mocked_any_city(date, city, activity_ids) ==
    IF TruthyStr(date) /\ ~strptime(date)
    THEN [ret |-> <<>>, printed |-> <<"Invalid date format">>]
    ELSE IF TruthyStr(date)
            /\ (StrLess(date, FirstDate) \/ StrLess(LastDate, date))
    THEN [ret |-> <<>>, printed |-> <<"outside the valid range">>]
    ELSE LET on_date ==
                 IF TruthyStr(date)
                 THEN SelectSeq(ACTIVITY_CALENDAR,
                                LAMBDA event : StartsWith(event.start_time, date))
                 ELSE ACTIVITY_CALENDAR
             activities ==
                 IF activity_ids # NoneList /\ activity_ids # <<>>
                 THEN SelectSeq(on_date,
                                LAMBDA event :
                                    event.activity_id \in Range(activity_ids))
                 ELSE on_date
         IN  [ret |-> activities,
              printed |-> IF activities = <<>>
                          THEN <<"No activities found">> ELSE <<>>]

\* call_activities_api_mocked collecting the events id by id, in the order
\* of activity_ids, instead of filtering the calendar
call_activities_api_mocked_by_id_order(date, city, activity_ids) ==
    IF Truthy(city) /\ city # "AgentsVille"
    THEN [ret |-> <<>>, printed |-> <<>>]
    ELSE IF TruthyStr(date) /\ ~strptime(date)
    THEN [ret |-> <<>>, printed |-> <<"Invalid date format">>]
    ELSE IF TruthyStr(date)
            /\ (StrLess(date, FirstDate) \/ StrLess(LastDate, date))
    THEN [ret |-> <<>>, printed |-> <<"outside the valid range">>]
    ELSE LET on_date ==
                 IF TruthyStr(date)
                 THEN SelectSeq(ACTIVITY_CALENDAR,
                                LAMBDA event : StartsWith(event.start_time, date))
                 ELSE ACTIVITY_CALENDAR
             collected[n \in 0..Len(activity_ids)] ==
                 IF n = 0 THEN <<>>
                 ELSE collected[n - 1]
                          \o SelectSeq(on_date,
                                       LAMBDA event :
                                           event.activity_id = activity_ids[n])
             activities ==
                 IF activity_ids # NoneList /\ activity_ids # <<>>
                 THEN collected[Len(activity_ids)]
                 ELSE on_date
         IN  [ret |-> activities,
              printed |-> IF activities = <<>>
                          THEN <<"No activities found">> ELSE <<>>]

\* ret is the value returned, printed the diagnostics written by print
call_activities_api_mocked(date, city, activity_ids) ==
    IF Truthy(city) /\ city # "AgentsVille"
    THEN [ret |-> <<>>, printed |-> <<>>]
    ELSE IF TruthyStr(date) /\ ~strptime(date)
    THEN [ret |-> <<>>, printed |-> <<"Invalid date format">>]
    ELSE IF TruthyStr(date)
            /\ (StrLess(date, FirstDate) \/ StrLess(LastDate, date))
    THEN [ret |-> <<>>, printed |-> <<"outside the valid range">>]
    ELSE LET on_date ==
                 IF TruthyStr(date)
                 THEN SelectSeq(ACTIVITY_CALENDAR,
                                LAMBDA event : StartsWith(event.start_time, date))
                 ELSE ACTIVITY_CALENDAR
             activities ==
                 IF activity_ids # NoneList /\ activity_ids # <<>>
                 THEN SelectSeq(on_date,
                                LAMBDA event :
                                    event.activity_id \in Range(activity_ids))
                 ELSE on_date
         IN  [ret |-> activities,
              printed |-> IF activities = <<>>
                          THEN <<"No activities found">> ELSE <<>>]

\* call_activity_by_id_api_mocked returning None without the print
call_activity_by_id_api_mocked_silent(activity_id) ==
    IF \E i \in 1..Len(ACTIVITY_CALENDAR) :
           ACTIVITY_CALENDAR[i].activity_id = activity_id
    THEN LET i == CHOOSE k \in 1..Len(ACTIVITY_CALENDAR) :
                     /\ ACTIVITY_CALENDAR[k].activity_id = activity_id
                     /\ \A j \in 1..(k - 1) :
                            ACTIVITY_CALENDAR[j].activity_id # activity_id
         IN  [ret |-> ACTIVITY_CALENDAR[i], printed |-> <<>>]
    ELSE [ret |-> NoneRecord, printed |-> <<>>]

\* call_activity_by_id_api_mocked returning the event after the match
call_activity_by_id_api_mocked_off_by_one(activity_id) ==
    IF \E i \in 1..Len(ACTIVITY_CALENDAR) :
           ACTIVITY_CALENDAR[i].activity_id = activity_id
    THEN LET i == CHOOSE k \in 1..Len(ACTIVITY_CALENDAR) :
                     /\ ACTIVITY_CALENDAR[k].activity_id = activity_id
                     /\ \A j \in 1..(k - 1) :
                            ACTIVITY_CALENDAR[j].activity_id # activity_id
         IN  [ret |-> ACTIVITY_CALENDAR[IF i < Len(ACTIVITY_CALENDAR)
                                        THEN i + 1 ELSE i],
              printed |-> <<>>]
    ELSE [ret |-> NoneRecord, printed |-> <<"not found">>]

call_activity_by_id_api_mocked(activity_id) ==
    IF \E i \in 1..Len(ACTIVITY_CALENDAR) :
           ACTIVITY_CALENDAR[i].activity_id = activity_id
    THEN LET i == CHOOSE k \in 1..Len(ACTIVITY_CALENDAR) :
                     /\ ACTIVITY_CALENDAR[k].activity_id = activity_id
                     /\ \A j \in 1..(k - 1) :
                            ACTIVITY_CALENDAR[j].activity_id # activity_id
         IN  [ret |-> ACTIVITY_CALENDAR[i], printed |-> <<>>]
    ELSE [ret |-> NoneRecord, printed |-> <<"not found">>]

\* call_weather_api_mocked without the test on the city
call_weather_api_mocked_any_city(date, city) ==
    IF ~strptime(date)
    THEN [ret |-> EmptyDict, printed |-> <<"Invalid date format">>]
    ELSE IF StrLess(date, FirstDate) \/ StrLess(LastDate, date)
    THEN [ret |-> EmptyDict, printed |-> <<"outside the valid range">>]
    ELSE IF \E i \in 1..Len(WEATHER_FORECAST) : WEATHER_FORECAST[i].date = date
    THEN LET i == CHOOSE k \in 1..Len(WEATHER_FORECAST) :
                     /\ WEATHER_FORECAST[k].date = date
                     /\ \A j \in 1..(k - 1) : WEATHER_FORECAST[j].date # date
         IN  [ret |-> WEATHER_FORECAST[i], printed |-> <<>>]
    ELSE [ret |-> EmptyDict, printed |-> <<>>]

call_weather_api_mocked(date, city) ==
    IF city # "AgentsVille"
    THEN [ret |-> EmptyDict, printed |-> <<>>]
    ELSE IF ~strptime(date)
    THEN [ret |-> EmptyDict, printed |-> <<"Invalid date format">>]
    ELSE IF StrLess(date, FirstDate) \/ StrLess(LastDate, date)
    THEN [ret |-> EmptyDict, printed |-> <<"outside the valid range">>]
    ELSE IF \E i \in 1..Len(WEATHER_FORECAST) : WEATHER_FORECAST[i].date = date
    THEN LET i == CHOOSE k \in 1..Len(WEATHER_FORECAST) :
                     /\ WEATHER_FORECAST[k].date = date
                     /\ \A j \in 1..(k - 1) : WEATHER_FORECAST[j].date # date
         IN  [ret |-> WEATHER_FORECAST[i], printed |-> <<>>]
    ELSE [ret |-> EmptyDict, printed |-> <<>>]

\* longest activity_ids list explored
MaxIds == 2

\* date strings passed to the mocked APIs
DateStrings ==
    { <<"2","0","2","5","-","0","6","-","0","9">>,
      <<"2","0","2","5","-","0","6","-","1","0">>,
      <<"2","0","2","5","-","0","6","-","1","1">>,
      <<"2","0","2","5","-","0","6","-","1","2">>,
      <<"2","0","2","5","-","0","6","-","1","3">>,
      <<"2","0","2","5","-","0","6","-","1","4">>,
      <<"2","0","2","5","-","0","6","-","1","5">>,
      <<"2","0","2","5","-","0","6","-","1","6">>,
      <<"2","0","2","5","-","6","-","1","0">>,
      <<"2","0","2","5","-","0","6","-","1">>,
      <<"2","0","2","5","-","0","6","-"," ","9">>,
      <<"2","0","2","5","-","0","6","-","1","0","0">>,
      <<"2","0","2","5","-","0","6","-","1","2"," ">>,
      <<"2","0","2","5","/","0","6","/","1","2">>,
      <<"2","0","2","5","-","0","2","-","3","0">>,
      <<>> }

\* date arguments of call_activities_api_mocked
DateArgs == DateStrings \cup {NoneStr}

\* city arguments
CityArgs == {None, "", "AgentsVille", "agentsville", "Paris"}

\* activity ids asked for: three of the calendar and one that is not in it
IdArgs ==
    {"event-2025-06-10-0", "event-2025-06-10-1", "event-2025-06-12-3",
     "event-2025-06-16-0"}

\* activity_ids arguments: None or a list of at most MaxIds ids
IdListArgs ==
    {NoneList} \cup UNION {[1..n -> IdArgs] : n \in 0..MaxIds}

\* a call of a mocked API about to be made
Pending(op, args) == [op |-> op, args |-> args, done |-> FALSE]

\* the calls explored
Requests ==
    {Pending("call_activities_api_mocked",
             [date |-> date, city |-> city, activity_ids |-> activity_ids]) :
         date \in DateArgs, city \in CityArgs, activity_ids \in IdListArgs}
    \cup {Pending("call_activity_by_id_api_mocked",
                  [activity_id |-> activity_id]) : activity_id \in IdArgs}
    \cup {Pending("call_weather_api_mocked", [date |-> date, city |-> city]) :
              date \in DateStrings, city \in CityArgs}

ListActivities ==
    /\ query.op = "call_activities_api_mocked"
    /\ ~query.done
    /\ LET r == call_activities_api_mocked(query.args.date, query.args.city,
                                           query.args.activity_ids)
       IN  query' = [query EXCEPT !.done = TRUE] @@
                        [ret |-> r.ret, printed |-> r.printed]
    /\ UNCHANGED <<agentVars, classVars>>

GetActivityById ==
    /\ query.op = "call_activity_by_id_api_mocked"
    /\ ~query.done
    /\ LET r == call_activity_by_id_api_mocked(query.args.activity_id)
       IN  query' = [query EXCEPT !.done = TRUE] @@
                        [ret |-> r.ret, printed |-> r.printed]
    /\ UNCHANGED <<agentVars, classVars>>

GetWeather ==
    /\ query.op = "call_weather_api_mocked"
    /\ ~query.done
    /\ LET r == call_weather_api_mocked(query.args.date, query.args.city)
       IN  query' = [query EXCEPT !.done = TRUE] @@
                        [ret |-> r.ret, printed |-> r.printed]
    /\ UNCHANGED <<agentVars, classVars>>

\* the mocked APIs are module-level functions without state: each behaviour
\* makes one call, beside one agent built with the default arguments
InitStore ==
    /\ Construct(NoneStr, None, None)
    /\ query \in Requests
    /\ ClassDefined

NextStore == ListActivities \/ GetActivityById \/ GetWeather

SpecStore == InitStore /\ [][NextStore]_vars

----------------------------------------------------------------------------
(* Several ChatAgent objects and the list of the class attribute           *)

\* longest transcript explored when two objects are used
MaxTwoLen == 3

\* the system_prompt argument each object is created with
PromptOf(a) ==
    IF a = 1
    THEN NoneStr
    ELSE <<"\n"," "," ","a"," ","\n"," ","\n"," "," "," ","b","\n">>

\* what self.messages denotes for object a: the list of its instance
\* attribute if it has one, otherwise the list of the class attribute
self_messages(objs, cls, a) ==
    IF objs[a].has_messages THEN objs[a].messages ELSE cls

\* self.messages.append(...): the list self.messages denotes is changed in
\* place, whoever else refers to it
append_in_place(objs, cls, a, msgs) ==
    IF objs[a].has_messages
    THEN [instances |-> [objs EXCEPT ![a].messages = msgs],
          ChatAgent_messages |-> cls]
    ELSE [instances |-> objs, ChatAgent_messages |-> msgs]

\* reset emptying the list self.messages denotes instead of binding a new one
self_reset_in_place(objs, cls, a) ==
    append_in_place(objs, cls, a,
                    reset(IF TruthyStr(objs[a].system_prompt)
                          THEN objs[a].system_prompt
                          ELSE DefaultSystemPrompt).messages)

\* self.reset(): self.messages = [] binds a new list to the object, and the
\* system turn is appended to that list.  self.system_prompt is the instance
\* attribute if __init__ set one, otherwise the class attribute.
self_reset(objs, cls, a) ==
    [instances |->
         [objs EXCEPT ![a].has_messages = TRUE,
                      ![a].messages =
                          reset(IF TruthyStr(objs[a].system_prompt)
                                THEN objs[a].system_prompt
                                ELSE DefaultSystemPrompt).messages],
     ChatAgent_messages |-> cls]

\* a = ChatAgent(system_prompt=PromptOf(a), client="client", model="gpt")
NewAgent(a) ==
    /\ ~instances[a].constructed
    /\ LET made == [instances EXCEPT
                        ![a].constructed = TRUE,
                        ![a].system_prompt =
                            IF TruthyStr(PromptOf(a)) THEN PromptOf(a)
                            ELSE NoneStr,
                        ![a].client = "client",
                        ![a].model = "gpt"]
           r == self_reset(made, ChatAgent_messages, a)
       IN  /\ instances' = r.instances
           /\ ChatAgent_messages' = r.ChatAgent_messages
    /\ acted' = [self |-> a, op |-> "__init__"]
    /\ UNCHANGED <<agentVars, query>>

\* a.reset()
ResetOf(a) ==
    /\ instances[a].constructed
    /\ LET r == self_reset(instances, ChatAgent_messages, a)
       IN  /\ instances' = r.instances
           /\ ChatAgent_messages' = r.ChatAgent_messages
    /\ acted' = [self |-> a, op |-> "reset"]
    /\ UNCHANGED <<agentVars, query>>

\* a.add_message(role, content)
AddMessageOf(a) ==
    /\ instances[a].constructed
    /\ \E role \in RoleArgs, content \in Contents :
           LET m == add_message(self_messages(instances, ChatAgent_messages, a),
                                role, content)
               r == append_in_place(instances, ChatAgent_messages, a,
                                    m.messages)
           IN  /\ Len(m.messages) <= MaxTwoLen
               /\ instances' = r.instances
               /\ ChatAgent_messages' = r.ChatAgent_messages
    /\ acted' = [self |-> a, op |-> "add_message"]
    /\ UNCHANGED <<agentVars, query>>

\* a.get_response(add_to_messages): no model or client is passed with the
\* call, so the ones the object was created with are the ones resolved
GetResponseOf(a) ==
    /\ instances[a].constructed
    /\ \E add_to_messages \in BOOLEAN, response \in Responses :
           LET m == get_response(
                        self_messages(instances, ChatAgent_messages, a),
                        add_to_messages, instances[a].model,
                        instances[a].client, response)
               r == append_in_place(instances, ChatAgent_messages, a,
                                    m.messages)
           IN  /\ Len(m.messages) <= MaxTwoLen
               /\ instances' = r.instances
               /\ ChatAgent_messages' = r.ChatAgent_messages
    /\ acted' = [self |-> a, op |-> "get_response"]
    /\ UNCHANGED <<agentVars, query>>

\* a.chat(user_message, add_to_messages)
ChatOf(a) ==
    /\ instances[a].constructed
    /\ \E user_message \in UserMessages, add_to_messages \in BOOLEAN,
          response \in Responses :
           LET m == chat(self_messages(instances, ChatAgent_messages, a),
                         user_message, add_to_messages, instances[a].model,
                         instances[a].client, response)
               r == append_in_place(instances, ChatAgent_messages, a,
                                    m.messages)
           IN  /\ Len(m.messages) <= MaxTwoLen
               /\ instances' = r.instances
               /\ ChatAgent_messages' = r.ChatAgent_messages
    /\ acted' = [self |-> a, op |-> "chat"]
    /\ UNCHANGED <<agentVars, query>>

\* the class is defined and no object exists yet
InitTwo ==
    /\ Construct(NoneStr, None, None)
    /\ query = NoCall
    /\ ClassDefined

NextTwo ==
    \E a \in AgentIds :
        \/ NewAgent(a)
        \/ ResetOf(a)
        \/ AddMessageOf(a)
        \/ GetResponseOf(a)
        \/ ChatOf(a)

SpecTwo == InitTwo /\ [][NextTwo]_vars

----------------------------------------------------------------------------
(* Properties of the ChatAgent                                             *)

Turn(role, content) == [role |-> role, content |-> content]

\* the turn reset() puts at the head of the transcript
SystemTurn == Turn("system", Strip(Dedent(system_prompt)))

IsPrefix(a, b) == Len(a) <= Len(b) /\ SubSeq(b, 1, Len(a)) = a

\* the last call was get_response or chat
Responding(c) == c.op \in {"get_response", "chat"}

\* the client was contacted during the call and handed back a reply
CollaboratorSucceeded(c) ==
    Responding(c) /\ Len(c.sent) = 1 /\ ~c.sent[1].response.error

\* the client was contacted during the call and handed back an error object
CollaboratorFailed(c) ==
    Responding(c) /\ Len(c.sent) = 1 /\ c.sent[1].response.error

\* neither the call nor the agent supplies a model, or neither a client
MissingConfiguration(c) ==
    Responding(c)
        /\ (Or(c.args.model, model) = None \/ Or(c.args.client, client) = None)

\* [system] followed by user, assistant, user, assistant, ...
Alternating(m) ==
    /\ Len(m) >= 1
    /\ m[1].role = "system"
    /\ \A i \in 2..Len(m) :
           m[i].role = IF i % 2 = 0 THEN "user" ELSE "assistant"

\* C1: every chat(userMessage) whose collaborator succeeds (addToTranscript
\* left at its default) appends exactly (user, userMessage) and then
\* (assistant, reply) and returns the reply; one chat("hello") answered "hi"
\* on a fresh agent leaves [system, user:"hello", assistant:"hi"] and
\* returns "hi".
C1_ChatAppendsUserThenAssistant ==
    /\ [][ (/\ call'.op = "chat"
            /\ CollaboratorSucceeded(call')
            /\ call'.args.add_to_messages)
           => /\ call'.raised = None
              /\ call'.ret = call'.sent[1].response.content
              /\ messages' = messages
                     \o <<Turn("user", call'.args.user_message),
                          Turn("assistant", call'.ret)>> ]_vars
    /\ [][ (/\ messages = <<SystemTurn>>
            /\ call'.op = "chat"
            /\ CollaboratorSucceeded(call')
            /\ call'.args.add_to_messages
            /\ call'.args.user_message = Hello
            /\ call'.sent[1].response.content = Hi)
           => /\ messages' = <<SystemTurn, Turn("user", Hello),
                               Turn("assistant", Hi)>>
              /\ call'.ret = Hi ]_vars

\* two successful chats in a row on a fresh agent
C1_Witness ==
    /\ call.op = "chat"
    /\ CollaboratorSucceeded(call)
    /\ call.args.add_to_messages
    /\ call.ret = Hi
    /\ messages = <<SystemTurn, Turn("user", Hello), Turn("assistant", Hi),
                    Turn("user", Hello), Turn("assistant", Hi)>>

\* C2: right after construction and right after reset(), whatever calls came
\* before, the transcript is exactly one turn, (system, the system prompt
\* dedented and stripped); reset never changes the prompt it starts from, so
\* a second reset yields the same transcript as the first.
C2_ResetRestoresSystemTurn ==
    /\ [](call.op \in {"__init__", "reset"} => messages = <<SystemTurn>>)
    /\ [](system_prompt = <<"\n"," "," ","a"," ","\n"," ","\n"," "," "," ","b","\n">>
             => SystemTurn.content = <<"a"," ","\n","\n"," ","b">>)
    /\ [][call'.op = "reset" => messages' = reset(system_prompt).messages]_vars
    /\ [][system_prompt' = system_prompt]_vars

\* a reset on an agent whose prompt needs dedenting and stripping
C2_Witness ==
    /\ call.op = "reset"
    /\ system_prompt # Strip(Dedent(system_prompt))
    /\ messages = <<Turn("system", <<"a"," ","\n","\n"," ","b">>)>>

C5_AlwaysAlternating == Alternating(messages)

\* the transcript is [system] or ends a complete user/assistant exchange
Settled(m) == Alternating(m) /\ Len(m) % 2 = 1

\* C5 amended: every transcript reachable by reset, chat and get_response
\* is a system turn followed by user and assistant turns only; construction
\* and reset leave [system], and from [system] or a transcript of complete
\* user/assistant exchanges each chat that succeeds with addToTranscript
\* set yields such a transcript again.  get_response on its own, a failed
\* chat and a chat with addToTranscript unset can put two turns of one role
\* side by side.
C5_AlternatingUnderSuccessfulChats ==
    /\ [](/\ Len(messages) >= 1
          /\ messages[1] = SystemTurn
          /\ \A i \in 2..Len(messages) :
                 messages[i].role \in {"user", "assistant"})
    /\ [](call.op \in {"__init__", "reset"} => Settled(messages))
    /\ [][ (/\ Settled(messages)
            /\ call'.op = "chat"
            /\ call'.raised = None
            /\ call'.args.add_to_messages)
           => Settled(messages') /\ Len(messages') = Len(messages) + 2 ]_vars

\* two complete exchanges built by successful chats
C5_Witness ==
    /\ call.op = "chat"
    /\ call.raised = None
    /\ call.args.add_to_messages
    /\ Settled(messages)
    /\ Len(messages) = 5

\* C6: add_message, get_response and chat only append: whether the call
\* succeeds or fails, the transcript before it is a prefix of the transcript
\* after it, and only reset can leave the transcript shorter.
C6_OnlyResetShortens ==
    /\ [][ call'.op \in {"add_message", "get_response", "chat"}
           => IsPrefix(messages, messages') ]_vars
    /\ [][ Len(messages') < Len(messages) => call'.op = "reset" ]_vars

\* a successful add_message on a transcript that already held an exchange
C6_Witness ==
    /\ call.op = "add_message"
    /\ call.raised = None
    /\ Len(messages) = MaxLen
    /\ messages[2] = Turn("user", Hello)
    /\ messages[Len(messages)] = Turn(call.args.role, call.args.content)

\* C7: add_message with a role outside {system, user, assistant} raises
\* ValueError and leaves the transcript as it was; with a role inside the
\* set it appends exactly the one turn (role, content).
C7_AddMessageChecksRole ==
    [][ call'.op = "add_message"
        => IF call'.args.role \in {"system", "user", "assistant"}
           THEN /\ call'.raised = None
                /\ messages' = Append(messages, Turn(call'.args.role,
                                                     call'.args.content))
           ELSE /\ call'.raised = "ValueError"
                /\ messages' = messages ]_vars

\* a rejected add_message on a transcript in conversation
C7_Witness ==
    /\ call.op = "add_message"
    /\ call.args.role = "bogus"
    /\ call.raised = "ValueError"
    /\ Len(messages) = 3

----------------------------------------------------------------------------
(* Properties of the mocked APIs                                           *)

\* the six dates 2025-06-10 .. 2025-06-15
SupportedDates ==
    { <<"2","0","2","5","-","0","6","-","1","0">>,
      <<"2","0","2","5","-","0","6","-","1","1">>,
      <<"2","0","2","5","-","0","6","-","1","2">>,
      <<"2","0","2","5","-","0","6","-","1","3">>,
      <<"2","0","2","5","-","0","6","-","1","4">>,
      <<"2","0","2","5","-","0","6","-","1","5">> }

\* the date part of a "YYYY-MM-DD HH:MM" timestamp: what precedes the space
RECURSIVE DatePart(_)
DatePart(timestamp) ==
    IF timestamp = <<>> \/ Head(timestamp) = " " THEN <<>>
    ELSE <<Head(timestamp)>> \o DatePart(Tail(timestamp))

\* a finished call_activities_api_mocked(date, "AgentsVille") on a served date
ListedByDate ==
    /\ query.done
    /\ query.op = "call_activities_api_mocked"
    /\ query.args.date \in SupportedDates
    /\ query.args.city = "AgentsVille"
    /\ query.args.activity_ids = NoneList

\* a finished call_weather_api_mocked
WeatherAsked == query.done /\ query.op = "call_weather_api_mocked"

\* C9: for each of the six dates and city AgentsVille the activities listed
\* are seed activities whose start timestamp has that date as its date part,
\* and over the six dates each of the 24 seed activities is listed exactly
\* once.
C9_ActivitiesPartitionByDate ==
    ListedByDate
        => /\ \A i \in 1..Len(query.ret) :
                  /\ query.ret[i] \in Range(ACTIVITY_CALENDAR)
                  /\ DatePart(query.ret[i].start_time) = query.args.date
           /\ Len(ACTIVITY_CALENDAR) = 24
           /\ \A k \in 1..Len(ACTIVITY_CALENDAR) :
                  Cardinality(
                      {p \in SupportedDates \X (1..Len(ACTIVITY_CALENDAR)) :
                          LET listed == call_activities_api_mocked(
                                            p[1], "AgentsVille", NoneList).ret
                          IN  /\ p[2] <= Len(listed)
                              /\ listed[p[2]] = ACTIVITY_CALENDAR[k]}) = 1

\* the four activities of the last served day are listed
C9_Witness ==
    /\ ListedByDate
    /\ query.args.date = LastDate
    /\ Len(query.ret) = 4
    /\ query.ret[4].activity_id = "event-2025-06-15-3"

Inclement(condition) ==
    \E i \in 1..Len(INCLIMATE_WEATHER_CONDITIONS) :
        INCLIMATE_WEATHER_CONDITIONS[i] = condition

\* the weather call returns the one seed record of a served date in
\* AgentsVille, inclement exactly on the dates given, and {} otherwise
WeatherContract(inclement_dates) ==
    WeatherAsked
        => IF query.args.date \in SupportedDates
              /\ query.args.city = "AgentsVille"
           THEN /\ query.ret \in Range(WEATHER_FORECAST)
                /\ query.ret.date = query.args.date
                /\ query.ret.city = query.args.city
                /\ Cardinality({i \in 1..Len(WEATHER_FORECAST) :
                                   WEATHER_FORECAST[i].date = query.args.date}) = 1
                /\ Inclement(query.ret.condition)
                       <=> query.args.date \in inclement_dates
           ELSE query.ret = EmptyDict

\* C10 as stated: one forecast record for each of the six dates with city
\* AgentsVille and {} for every other (date, city); the condition is
\* inclement on 2025-06-12 and 2025-06-13 and on none of the other four.
C10_InclementOnTwoDays ==
    WeatherContract({ <<"2","0","2","5","-","0","6","-","1","2">>,
                      <<"2","0","2","5","-","0","6","-","1","3">> })

\* C10 amended: one forecast record for each of the six dates with city
\* AgentsVille and {} for every other (date, city); the condition is
\* inclement on 2025-06-12, 2025-06-13 and 2025-06-14 and on none of the
\* other three.
C10_InclementOnThreeDays ==
    WeatherContract({ <<"2","0","2","5","-","0","6","-","1","2">>,
                      <<"2","0","2","5","-","0","6","-","1","3">>,
                      <<"2","0","2","5","-","0","6","-","1","4">> })

\* the forecast of 2025-06-14 is asked for and is rainy
C10_Witness ==
    /\ WeatherAsked
    /\ query.args.date = <<"2","0","2","5","-","0","6","-","1","4">>
    /\ query.args.city = "AgentsVille"
    /\ query.ret.condition = "rainy"
    /\ Inclement(query.ret.condition)

\* a finished call_activities_api_mocked
Listed == query.done /\ query.op = "call_activities_api_mocked"

\* a finished call_activity_by_id_api_mocked
ActivityAsked == query.done /\ query.op = "call_activity_by_id_api_mocked"

\* the seed activities, in seed order, that start on the date (any date when
\* none is given) and whose identifier is among ids
OnDateWithIds(date, ids) ==
    SelectSeq(ACTIVITY_CALENDAR,
              LAMBDA event :
                  /\ date = NoneStr \/ DatePart(event.start_time) = date
                  /\ event.activity_id \in Range(ids))

\* C11: the filters are applied conjunctively: for a served date and any
\* supplied activity_ids list, the empty list included, the result is exactly
\* the seed activities that start on the date and whose identifier is in the
\* list; with activity_ids alone it is exactly the seed activities whose
\* identifier is in the list.
C11_FiltersCompose ==
    (/\ Listed
     /\ query.args.activity_ids # NoneList
     /\ query.args.city \in {None, "AgentsVille"}
     /\ query.args.date \in SupportedDates \cup {NoneStr})
        => query.ret = OnDateWithIds(query.args.date, query.args.activity_ids)

EmptyResult ==
    CASE query.op = "call_activities_api_mocked"     -> <<>>
      [] query.op = "call_activity_by_id_api_mocked" -> NoneRecord
      [] query.op = "call_weather_api_mocked"        -> EmptyDict

\* the date argument does not parse, or lies outside the served window
BadDate(date) ==
    ~strptime(date) \/ StrLess(date, FirstDate) \/ StrLess(LastDate, date)

\* no seed activity carries the identifier
UnknownId(activity_id) ==
    \A k \in 1..Len(ACTIVITY_CALENDAR) :
        ACTIVITY_CALENDAR[k].activity_id # activity_id

OtherCity == 
    IF query.op = "call_weather_api_mocked"
    THEN query.args.city # "AgentsVille"
    ELSE Truthy(query.args.city) /\ query.args.city # "AgentsVille"

SeedPositions(activity_id) ==
    {k \in 1..Len(ACTIVITY_CALENDAR) :
        ACTIVITY_CALENDAR[k].activity_id = activity_id}

C15_ResultIsSubsequenceOfSeed ==
    Listed =>
        /\ \A i \in 1..Len(query.ret) :
               query.ret[i] \in Range(ACTIVITY_CALENDAR)
        /\ \A i, j \in 1..Len(query.ret) :
               i < j =>
                   \E k, l \in 1..Len(ACTIVITY_CALENDAR) :
                       /\ k < l
                       /\ ACTIVITY_CALENDAR[k] = query.ret[i]
                       /\ ACTIVITY_CALENDAR[l] = query.ret[j]
        /\ \A i, j \in 1..Len(query.ret) :
               query.ret[i] = query.ret[j] => i = j

\* a listing whose activity_ids names two identifiers against the seed
\* order has returned both activities
C15_Witness ==
    /\ Listed
    /\ \E i, j \in 1..Len(query.args.activity_ids) :
           /\ i < j
           /\ query.args.activity_ids[i] = "event-2025-06-10-1"
           /\ query.args.activity_ids[j] = "event-2025-06-10-0"
    /\ Len(query.ret) = 2

\* C16: in every state reached from construction by reset, add_message
\* (valid or invalid role), get_response and chat, the transcript is
\* non-empty and its first turn has role system and, as content, the
\* dedented and stripped system prompt of the agent.
C16_FirstTurnIsSystemPrompt ==
    /\ messages # <<>>
    /\ Head(messages).role = "system"
    /\ Head(messages).content = Strip(Dedent(system_prompt))

\* a full transcript, last touched by a rejected add_message, on an agent
\* whose prompt needs dedenting: the first turn is the cleaned prompt
C16_Witness ==
    /\ call.op = "add_message"
    /\ call.raised = "ValueError"
    /\ Len(messages) = MaxLen
    /\ \E i \in 2..Len(messages) : messages[i].role = "system"
    /\ Head(messages) = Turn("system", <<"a"," ","\n","\n"," ","b">>)

\* the transcript a call hands to do_chat_completion: for chat, the
\* transcript with the user turn already appended
TranscriptAtCall(c, before) ==
    IF c.op = "chat"
    THEN Append(before, Turn("user", c.args.user_message))
    ELSE before

\* C17: each get_response or chat that succeeds has invoked the client
\* exactly once, with the whole transcript as it stood at that moment (for
\* chat, already ending with the user turn just appended) and with the
\* resolved model: the model argument of the call when one is passed,
\* otherwise the model bound at construction.
C17_OneInvocationWithTranscriptAndModel ==
    [][ (Responding(call') /\ call'.raised = None)
        => /\ Len(call'.sent) = 1
           /\ call'.sent[1].messages = TranscriptAtCall(call', messages)
           /\ call'.sent[1].model = IF Truthy(call'.args.model)
                                    THEN call'.args.model
                                    ELSE model
           /\ call'.sent[1].model # None
           /\ IsPrefix(call'.sent[1].messages, messages') ]_vars

\* a chat that passed its own model to an agent bound to another one: the
\* client saw the transcript ending with the user turn, and the call's model
C17_Witness ==
    /\ call.op = "chat"
    /\ call.raised = None
    /\ model = "gpt"
    /\ call.args.model = "other-gpt"
    /\ Len(call.sent) = 1
    /\ call.sent[1].model = "other-gpt"
    /\ Len(call.sent[1].messages) >= 4
    /\ call.sent[1].messages[Len(call.sent[1].messages)] = Turn("user", Hello)

\* C18: with add_to_messages false and a client that succeeds, get_response
\* returns the reply and leaves the transcript as it was, and chat returns
\* the reply and leaves the transcript longer by the user turn alone.
C18_FlagGovernsOnlyAssistantTurn ==
    [][ (/\ CollaboratorSucceeded(call')
         /\ call'.raised = None
         /\ ~call'.args.add_to_messages)
        => /\ call'.ret = call'.sent[1].response.content
           /\ call'.op = "get_response" => messages' = messages
           /\ call'.op = "chat"
                  => messages' = Append(messages,
                                        Turn("user", call'.args.user_message))
       ]_vars

\* a chat with add_to_messages false has succeeded: the transcript ends with
\* its user turn and the reply was returned
C18_Witness ==
    /\ call.op = "chat"
    /\ call.raised = None
    /\ ~call.args.add_to_messages
    /\ call.ret = Hi
    /\ Len(messages) >= 3
    /\ messages[Len(messages)] = Turn("user", Hello)
    /\ messages[Len(messages) - 1] = Turn("user", Hello)

\* C19: the transcripts of distinct ChatAgent objects are independent: a
\* call on one object, its construction included, leaves the transcript of
\* every other object as it was; every object has a list of its own from
\* its construction on, and the list of the class attribute is never the
\* one an object appends to, so it stays empty.
C19_TranscriptsIndependent ==
    /\ [](/\ ChatAgent_messages = <<>>
          /\ \A a \in AgentIds :
                 instances[a].constructed => instances[a].has_messages)
    /\ [][ \A a, b \in AgentIds :
               (acted'.self = a /\ b # a /\ instances[b].constructed)
                   => self_messages(instances', ChatAgent_messages', b)
                          = self_messages(instances, ChatAgent_messages, b)
         ]_vars

\* two objects hold different transcripts of several turns, the second one
\* having just chatted, and the list of the class is still empty
C19_Witness ==
    /\ \A a \in AgentIds : instances[a].constructed
    /\ acted = [self |-> 2, op |-> "chat"]
    /\ Len(self_messages(instances, ChatAgent_messages, 1)) = MaxTwoLen
    /\ Len(self_messages(instances, ChatAgent_messages, 2)) = MaxTwoLen
    /\ self_messages(instances, ChatAgent_messages, 1)[2] = Turn("assistant", Hi)
    /\ self_messages(instances, ChatAgent_messages, 2)[2] = Turn("user", Hello)
    /\ ChatAgent_messages = <<>>

====
